---- MODULE Spec2Model ----
(***************************************************************************)
(* Model of the generation pipeline of seedream-mcp-server                 *)
(* (src/src/services/seedream.ts): one invocation of generateImages, from  *)
(* a freshly started process, on Node's single-threaded event loop.        *)
(*                                                                         *)
(* Scheduling.  The body of generateImages is one coroutine.  Code between *)
(* two awaits runs atomically; a continuation of an await on a promise     *)
(* that is already settled is a microtask, and Node drains the microtask   *)
(* queue completely before it handles the next I/O completion or timer     *)
(* (a macrotask).  The steps of the generation units (response, frame,     *)
(* download attempt, timer) are macrotasks: they are enabled only while    *)
(* the coroutine is suspended on a promise that is still pending.          *)
(*                                                                         *)
(* The process is fresh: base64Cache is empty, so every local reference    *)
(* image of the invocation misses the cache and is read from disk (the     *)
(* cache is consulted for all references before any read completes).       *)
(*                                                                         *)
(* Three parts of the file are also modelled on their own, each with its   *)
(* own specification: fileToBase64 with its cache (CacheSpec), the reading *)
(* of one response stream (StreamSpec) and handleApiError                  *)
(* (ClassifierSpec).  In each specification the variables of the other     *)
(* parts keep their initial values.                                        *)
(***************************************************************************)
EXTENDS Integers, Sequences, FiniteSets, TLC

\* ---------------------------------------------------------------- bounds
\* largest batchCount a caller passes (above the cap of 15 of line 498)
MaxBatch == 16
\* largest number of reference images of one request
MaxRefs == 2
\* largest number of lines of a response body
MaxLines == 3
\* how many times the clock advances (by CACHE_TTL)
MaxTicks == 2
\* largest number of file reads of fileToBase64 in progress at once
MaxReading == 2

\* ------------------------------------------------------------- constants
MAX_PARALLEL_API_CALLS == 2
RETRY_ATTEMPTS == 2
DEFAULT_BATCH_COUNT == 4
BATCH_CAP == 15
RETRY_DELAY == 1000
CACHE_MAX_SIZE == 10
CACHE_TTL == 300000

VARIABLES
    req,              \* the arguments of generateImages and the environment
    pc,               \* position of the generateImages coroutine
    refState,         \* per reference image: state of its processImageInput
    payload,          \* the base payload built at lines 461-490
    numCalls,         \* line 498
    queue,            \* line 510: unit indices not yet dispatched
    inProgress,       \* line 511: the promises of the dispatched units
    unit,             \* per unit: position of its generateAndDownloadImage
    dispatchLog,      \* every call of makeStreamingRequest, in order
    generatedImages,  \* line 494
    events,           \* what onProgress was called with, in order
    synced,           \* the urls handed to syncImageToFirebase
    result,           \* the GenerationResult returned
    \* fileToBase64 and its cache, called on their own
    base64Cache,      \* line 64: the Map, as its entries in insertion order
    clock,            \* Date.now()
    reading,          \* the calls of fileToBase64 suspended at line 128
    lastCall,         \* what the call of fileToBase64 that just returned did
    freshPaths,       \* how many different paths have been asked for so far
    \* one response stream read by generateAndDownloadImage, on its own
    sseLines,         \* the lines of the response body
    ssePos,           \* how many of them parseSSEStream has consumed
    sseOutcome,       \* what generateAndDownloadImage returned
    \* handleApiError, called on its own
    raised,           \* the error value at hand
    classified,       \* the last error classified and the message returned
    \* the final sort of generateImages, on its own
    sortInput,        \* generatedImages before line 565
    sortOutput,       \* generatedImages after line 570
    \* parseSSEStream fed with the chunks of one response, on its own
    chunkStream,      \* the bytes of the whole response body
    chunkRest,        \* the bytes not yet delivered
    chunkBuffer,      \* line 270: buffer
    chunkYielded,     \* the events yielded so far
    \* HttpMcpHandler
    pendingRequests,  \* the Map of that name: JSON-RPC id -> entry
    httpRequests,     \* the calls of handleRequest and how each was settled
    serverInbox,      \* requests sent to the server and not yet answered
    \* processTaskWithFirebase (submit.ts)
    task,             \* position of the background function and the task record
    \* the files written by the downloads of two invocations
    files,            \* the files of the download directory: name and content
    wallSecond,       \* the wall clock, in seconds
    \* ProgressReporter
    reporter,         \* the fields of the object
    reporterNow,      \* Date.now()
    sent              \* the notifications handed to sendNotification

pipelineVars == <<req, pc, refState, payload, numCalls, queue, inProgress, unit,
                  dispatchLog, generatedImages, events, synced, result>>
cacheVars == <<base64Cache, clock, reading, lastCall, freshPaths>>
streamVars == <<sseLines, ssePos, sseOutcome>>
classifierVars == <<raised, classified>>

sortVars == <<sortInput, sortOutput>>
chunkVars == <<chunkStream, chunkRest, chunkBuffer, chunkYielded>>
handlerVars == <<pendingRequests, httpRequests, serverInbox>>
taskVars == <<task>>
nameVars == <<files, wallSecond>>
reporterVars == <<reporter, reporterNow, sent>>

vars == <<pipelineVars, cacheVars, streamVars, classifierVars, sortVars, chunkVars,
          handlerVars, taskVars, nameVars, reporterVars>>

\* what an action of one part leaves alone
addedVars == <<sortVars, chunkVars, handlerVars, nameVars, reporterVars>>
outsidePipeline == <<cacheVars, streamVars, classifierVars, taskVars, addedVars>>
outsideCache == <<pipelineVars, streamVars, classifierVars, taskVars, addedVars>>
outsideStream == <<pipelineVars, cacheVars, classifierVars, taskVars, addedVars>>
outsideClassifier == <<pipelineVars, cacheVars, streamVars, taskVars, addedVars>>

\* ------------------------------------------------------------ the inputs
\* A reference image is a remote URL, a data URL or a local path.
RefPool == {[kind |-> "https", name |-> "u"],
            [kind |-> "data", name |-> "d"],
            [kind |-> "path", name |-> "a.jpg"]}

RECURSIVE SeqsUpTo(_, _)
SeqsUpTo(S, n) ==
    IF n = 0 THEN {<<>>}
    ELSE LET shorter == SeqsUpTo(S, n - 1)
         IN shorter \cup {Append(s, x) : s \in {t \in shorter : Len(t) = n - 1}, x \in S}

\* batchCount: omitted (given = FALSE) or a number 1..MaxBatch
BatchArgs == {[given |-> FALSE, k |-> 0]} \cup {[given |-> TRUE, k |-> k] : k \in 1..MaxBatch}

\* with reference images: batchCount omitted (edit.ts, blend.ts), smallest, largest
BatchArgsWithRefs == {b \in BatchArgs : ~b.given \/ b.k \in {1, MaxBatch}}

Requests ==
    {r \in [apiKey : BOOLEAN, batch : BatchArgs, images : SeqsUpTo(RefPool, MaxRefs),
            download : BOOLEAN, progress : BOOLEAN, firebase : BOOLEAN,
            skipSync : BOOLEAN] :
        Len(r.images) > 0 => r.batch \in BatchArgsWithRefs}

NoResult == [returned |-> FALSE, success |-> FALSE, images |-> <<>>, error |-> "none"]
NoPayload == [imageKind |-> "absent", image |-> <<>>, seqGen |-> "absent"]

Min(a, b) == IF a < b THEN a ELSE b

\* --------------------------------------------------- processImageInput
IsRemoteOrData(ref) == ref.kind \in {"http", "https", "data"}

\* the data URL fileToBase64 builds from the file's bytes (jpg -> jpeg)
EncodeFile(ref) == [kind |-> "data", name |-> <<"image/jpeg;base64", ref.name>>]

\* what processImageInput resolves to once its file read (if any) succeeded
ProcessImageInput(ref) == IF IsRemoteOrData(ref) THEN ref ELSE EncodeFile(ref)

\* ------------------------------------------------------- handleApiError
HandleApiError(err) ==
    IF err.axios
    THEN IF err.response
         THEN CASE err.status = 400 -> "invalid-request"
                [] err.status = 401 -> "authentication"
                [] err.status = 403 -> "access-denied"
                [] err.status = 429 -> "rate-limit"
                [] err.status = 500 -> "server-error"
                [] OTHER -> "api-error"
         ELSE IF err.code = "ECONNABORTED" THEN "timeout"
              ELSE IF err.code = "ECONNREFUSED" THEN "network"
              ELSE "unexpected"
    ELSE "unexpected"

\* the error fs.promises.readFile rejects with
FsError == [axios |-> FALSE, response |-> FALSE, status |-> 0, code |-> "ENOENT"]

\* ------------------------------------------------------------ one unit
\* no error: the value of lastError before the first failed attempt
NoError == [stage |-> "none", attempt |-> 0]

\* A generation unit before its dispatch.  st is the position of its
\* generateAndDownloadImage, attempt the loop variable of downloadImage,
\* outcome how the unit ended; frame is the deciding frame it received, gets
\* counts the calls of axios.get, slept lists the sleeps of downloadImage in
\* milliseconds, lastError is downloadImage's variable and thrown the error
\* downloadImage left with.
NewUnit == [st |-> "queued", attempt |-> 0, outcome |-> "none", frame |-> "none",
            gets |-> 0, slept |-> <<>>, lastError |-> NoError, thrown |-> NoError]

\* ------------------------------------------------- values of "nothing yet"
\* no call of fileToBase64 has returned
NoCall == [path |-> 0, served |-> FALSE, data |-> [path |-> 0, version |-> 0],
           at |-> 0, stamp |-> 0, evicted |-> <<>>]

\* generateAndDownloadImage has not returned
NoOutcome == [kind |-> "none", url |-> "none", size |-> "none"]

\* processTaskWithFirebase was not called: its position, the status of the
\* task record in the datastore, the images added to it, and whether a
\* datastore call failed
NoTask == [pc |-> "off", status |-> "none", added |-> 0, writes |-> <<>>,
           datastoreFailed |-> FALSE]

\* no ProgressReporter
NoReporter == [progressToken |-> [type |-> "undefined", text |-> ""],
               hasSender |-> FALSE, stages |-> 0, currentStage |-> 0,
               lastNotifyTime |-> 0, completed |-> FALSE]

\* no error value
NoRaised == [source |-> "none", axios |-> FALSE, response |-> FALSE, status |-> 0,
             code |-> "none", httpStatus |-> 0, connCode |-> "none"]

\* ----------------------------------------------------------------- Init
\* the cache of a fresh process, nothing asked of it
CacheIdle ==
    /\ base64Cache = <<>>
    /\ clock = 0
    /\ reading = <<>>
    /\ lastCall = NoCall
    /\ freshPaths = 0

\* no response stream at hand
StreamIdle ==
    /\ sseLines = <<>>
    /\ ssePos = 0
    /\ sseOutcome = NoOutcome

\* no error at hand
ClassifierIdle ==
    /\ raised = NoRaised
    /\ classified = [err |-> NoRaised, message |-> "none"]

\* nothing to sort
SortIdle ==
    /\ sortInput = <<>>
    /\ sortOutput = [done |-> FALSE, images |-> <<>>]

\* no response body at hand
ChunkIdle ==
    /\ chunkStream = <<>>
    /\ chunkRest = <<>>
    /\ chunkBuffer = <<>>
    /\ chunkYielded = <<>>

\* no HTTP request was handled
HandlerIdle ==
    /\ pendingRequests = {}
    /\ httpRequests = <<>>
    /\ serverInbox = {}

\* no task was submitted
TaskIdle == task = NoTask

\* an empty download directory
NameIdle ==
    /\ files = {}
    /\ wallSecond = 0

\* no ProgressReporter was constructed
ReporterIdle ==
    /\ reporter = NoReporter
    /\ reporterNow = 0
    /\ sent = <<>>

AddedIdle == SortIdle /\ ChunkIdle /\ HandlerIdle /\ NameIdle /\ ReporterIdle

Init ==
    /\ CacheIdle /\ StreamIdle /\ ClassifierIdle /\ TaskIdle /\ AddedIdle
    /\ req \in Requests
    /\ pc = "start"
    /\ refState = [i \in 1..Len(req.images) |-> "idle"]
    /\ payload = NoPayload
    /\ numCalls = 0
    /\ queue = <<>>
    /\ inProgress = <<>>
    /\ unit = <<>>
    /\ dispatchLog = <<>>
    /\ generatedImages = <<>>
    /\ events = <<>>
    /\ synced = <<>>
    /\ result = NoResult

\* onProgress?.(e)
Emit(log, e) == IF req.progress THEN Append(log, e) ELSE log

\* Start without the credential gate of lines 446-453
StartWithoutGate ==
    /\ pc = "start"
    /\ refState' = [i \in 1..Len(req.images) |->
                      IF IsRemoteOrData(req.images[i]) THEN "resolved" ELSE "reading"]
    /\ pc' = "resolving"
    /\ UNCHANGED <<req, payload, numCalls, queue, inProgress, unit, dispatchLog,
                   generatedImages, events, synced, result>>
    /\ UNCHANGED outsidePipeline

\* ------------------------------------------------ generateImages, start
\* lines 443-473: the credential gate, then processImageInput is called for
\* every reference image; a local path misses the (empty) cache and starts
\* its file read
Start ==
    /\ pc = "start"
    /\ IF ~req.apiKey
       THEN /\ result' = [returned |-> TRUE, success |-> FALSE, images |-> <<>>,
                          error |-> "api-key-not-set"]
            /\ pc' = "returned"
            /\ UNCHANGED refState
       ELSE /\ refState' = [i \in 1..Len(req.images) |->
                              IF IsRemoteOrData(req.images[i]) THEN "resolved" ELSE "reading"]
            /\ pc' = "resolving"
            /\ UNCHANGED result
    /\ UNCHANGED <<req, payload, numCalls, queue, inProgress, unit, dispatchLog,
                   generatedImages, events, synced>>
    /\ UNCHANGED outsidePipeline

\* a file read of fileToBase64 completes (line 128)
ReadFileOk(i) ==
    /\ pc \in {"resolving", "returned"}
    /\ refState[i] = "reading"
    /\ refState' = [refState EXCEPT ![i] = "resolved"]
    /\ UNCHANGED <<req, pc, payload, numCalls, queue, inProgress, unit, dispatchLog,
                   generatedImages, events, synced, result>>
    /\ UNCHANGED outsidePipeline

\* ReadFileFail with Promise.allSettled in place of Promise.all: the failed
\* reference is dropped and the request goes on
ReadFileFailTolerated(i) ==
    /\ pc \in {"resolving", "returned"}
    /\ refState[i] = "reading"
    /\ refState' = [refState EXCEPT ![i] = "failed"]
    /\ IF pc = "resolving" /\ \A j \in DOMAIN refState : j # i => refState[j] # "reading"
       THEN /\ payload' = NoPayload
            /\ numCalls' = 1
            /\ queue' = <<1>>
            /\ unit' = <<NewUnit>>
            /\ pc' = "loop"
       ELSE UNCHANGED <<payload, numCalls, queue, unit, pc>>
    /\ UNCHANGED <<req, inProgress, dispatchLog, generatedImages, events, synced, result>>
    /\ UNCHANGED outsidePipeline

\* a file read fails: Promise.all (line 473) rejects at once, the catch of
\* lines 606-617 returns the classified error
ReadFileFail(i) ==
    /\ pc \in {"resolving", "returned"}
    /\ refState[i] = "reading"
    /\ refState' = [refState EXCEPT ![i] = "failed"]
    /\ IF pc = "resolving"
       THEN /\ result' = [returned |-> TRUE, success |-> FALSE, images |-> <<>>,
                          error |-> HandleApiError(FsError)]
            /\ pc' = "returned"
       ELSE UNCHANGED <<result, pc>>
    /\ UNCHANGED <<req, payload, numCalls, queue, inProgress, unit, dispatchLog,
                   generatedImages, events, synced>>
    /\ UNCHANGED outsidePipeline

\* BuildPayload with the single-image test of line 475 off by one
BuildPayloadOffByOne(images) ==
    LET processedImages == [i \in 1..Len(images) |-> ProcessImageInput(images[i])]
    IN IF Len(images) = 0 THEN NoPayload
       ELSE IF Len(processedImages) <= 2
            THEN [imageKind |-> "single", image |-> <<processedImages[1]>>, seqGen |-> "absent"]
            ELSE [imageKind |-> "array", image |-> processedImages, seqGen |-> "disabled"]

\* lines 472-490: the image fields of the payload
BuildPayload(images) ==
    LET processedImages == [i \in 1..Len(images) |-> ProcessImageInput(images[i])]
    IN IF Len(images) = 0 THEN NoPayload
       ELSE IF Len(processedImages) = 1
            THEN [imageKind |-> "single", image |-> <<processedImages[1]>>, seqGen |-> "absent"]
            ELSE [imageKind |-> "array", image |-> processedImages, seqGen |-> "disabled"]

\* line 458 (default) and line 498
NumCalls(batch, images) ==
    LET batchCount == IF batch.given THEN batch.k ELSE DEFAULT_BATCH_COUNT
    IN IF Len(images) = 0 THEN Min(batchCount, BATCH_CAP) ELSE 1

\* Promise.all resolved: lines 475-511
Prepare ==
    /\ pc = "resolving"
    /\ \A i \in 1..Len(req.images) : refState[i] = "resolved"
    /\ payload' = BuildPayload(req.images)
    /\ numCalls' = NumCalls(req.batch, req.images)
    /\ queue' = [i \in 1..numCalls' |-> i]
    /\ unit' = [i \in 1..numCalls' |-> NewUnit]
    /\ inProgress' = <<>>
    /\ pc' = "loop"
    /\ UNCHANGED <<req, refState, dispatchLog, generatedImages, events, synced, result>>
    /\ UNCHANGED outsidePipeline

\* ------------------------------------------- the completion sweep's race
\* Lines 539-542 evaluate, for one in-flight promise p,
\*     Promise.race([p.then(() => "fulfilled"), Promise.resolve("pending")])
\* The microtask queue right after this expression, in the order the jobs
\* were enqueued: p.then(...) enqueues the reaction job of p when p is already
\* settled (and nothing when p is pending); Promise.race then calls .then on
\* the derived promise, which is still pending (nothing enqueued), and on the
\* already-resolved sentinel (its reaction job is enqueued).
RaceJobs(taskSettled) ==
    (IF taskSettled THEN <<[job |-> "thenCallback", value |-> "fulfilled"]>> ELSE <<>>)
    \o <<[job |-> "resolveRace", value |-> "pending"]>>

\* Run the microtask queue in FIFO order.  The reaction job of p runs the
\* callback and fulfils the derived promise, which only then enqueues the
\* job that resolves the race with "fulfilled"; a resolveRace job settles
\* the race if nothing settled it before.
RECURSIVE RunJobs(_, _)
RunJobs(jobs, settledWith) ==
    IF jobs = <<>> THEN settledWith
    ELSE IF Head(jobs).job = "thenCallback"
         THEN RunJobs(Append(Tail(jobs), [job |-> "resolveRace", value |-> Head(jobs).value]),
                      settledWith)
         ELSE RunJobs(Tail(jobs),
                      IF settledWith = "unsettled" THEN Head(jobs).value ELSE settledWith)

\* the value of `status` at line 539.  The sentinel's job is ahead of the job
\* that the callback of p.then enqueues, so the race settles with "pending"
\* whether p is settled or not.
SweepStatus(taskSettled) == RunJobs(RaceJobs(taskSettled), "unsettled")

Settled(i) == unit[i].st = "settled"

\* lines 538-546: for (i = length - 1; i >= 0; i--) splice the fulfilled ones
RECURSIVE SweepLoop(_, _)
SweepLoop(inP, i) ==
    IF i = 0 THEN inP
    ELSE IF SweepStatus(Settled(inP[i])) = "fulfilled"
         THEN SweepLoop(SubSeq(inP, 1, i - 1) \o SubSeq(inP, i + 1, Len(inP)), i - 1)
         ELSE SweepLoop(inP, i - 1)

\* FillLoop with <= for < in the cap test of line 515
RECURSIVE FillLoopOffByOne(_, _)
FillLoopOffByOne(q, inP) ==
    IF Len(q) > 0 /\ Len(inP) <= MAX_PARALLEL_API_CALLS
    THEN FillLoopOffByOne(Tail(q), Append(inP, Head(q)))
    ELSE [queue |-> q, inProgress |-> inP]

\* lines 515-532: the inner while loop; returns what is left of the queue
\* and the in-flight list
RECURSIVE FillLoop(_, _)
FillLoop(q, inP) ==
    IF Len(q) > 0 /\ Len(inP) < MAX_PARALLEL_API_CALLS
    THEN FillLoop(Tail(q), Append(inP, Head(q)))
    ELSE [queue |-> q, inProgress |-> inP]

\* ------------------------------------------------------- the final sort
\* the decimal digits of a number, as string interpolation writes them
RECURSIVE Digits(_)
Digits(n) == IF n < 10 THEN <<n>> ELSE Append(Digits(n \div 10), n % 10)

\* lines 174-175: seedream_<timestamp to the second>_<index>.jpg
Filename(timestamp, index) ==
    [prefix |-> "seedream", timestamp |-> timestamp, index |-> Digits(index),
     ext |-> "jpg"]

NoPath == [present |-> FALSE, name |-> Filename(0, 0)]

\* parseInt of a string of digits
RECURSIVE ParseInt(_)
ParseInt(digits) ==
    IF digits = <<>> THEN 0
    ELSE 10 * ParseInt(SubSeq(digits, 1, Len(digits) - 1)) + digits[Len(digits)]

\* SortKey that reads only the first digit of the index
SortKeyFirstDigit(img) ==
    IF img.localPath.present THEN ParseInt(<<img.localPath.name.index[1]>>) ELSE 0

\* lines 567-568: the index parsed from the file name (the digits between
\* the last "_" and ".jpg"), 0 without localPath
SortKey(img) ==
    IF img.localPath.present THEN ParseInt(img.localPath.name.index) ELSE 0

\* Array.prototype.sort with the comparator of line 569 (a stable sort)
RECURSIVE InsertSorted(_, _)
InsertSorted(sorted, img) ==
    IF sorted = <<>> THEN <<img>>
    ELSE IF SortKey(sorted[Len(sorted)]) <= SortKey(img) THEN Append(sorted, img)
         ELSE Append(InsertSorted(SubSeq(sorted, 1, Len(sorted) - 1), img), sorted[Len(sorted)])

RECURSIVE SortImages(_)
SortImages(imgs) ==
    IF imgs = <<>> THEN <<>>
    ELSE InsertSorted(SortImages(SubSeq(imgs, 1, Len(imgs) - 1)), imgs[Len(imgs)])

\* lines 574-590: the images handed to syncImageToFirebase
RECURSIVE SyncTargets(_)
SyncTargets(imgs) ==
    IF imgs = <<>> THEN <<>>
    ELSE IF Head(imgs).localPath.present
         THEN <<Head(imgs).url>> \o SyncTargets(Tail(imgs))
         ELSE SyncTargets(Tail(imgs))

\* ------------------------------------------------ the scheduling loop
\* One pass of the outer while loop up to its await (lines 513-536); when
\* the loop condition is false, lines 550-605 run instead.  The outcome of
\* a sync never reaches the result (firebase.ts catches and returns null).
Schedule ==
    /\ pc = "loop"
    /\ IF Len(queue) > 0 \/ Len(inProgress) > 0
       THEN LET filled == FillLoop(queue, inProgress)
                started == SubSeq(filled.inProgress, Len(inProgress) + 1,
                                  Len(filled.inProgress))
                isNew(i) == \E n \in 1..Len(started) : started[n] = i
            IN /\ queue' = filled.queue
               /\ inProgress' = filled.inProgress
               /\ unit' = [i \in DOMAIN unit |->
                             IF isNew(i) THEN [unit[i] EXCEPT !.st = "requesting"]
                             ELSE unit[i]]
               /\ dispatchLog' = dispatchLog \o
                      [n \in 1..Len(started) |-> [index |-> started[n], payload |-> payload]]
               /\ pc' = "race"
               /\ UNCHANGED <<generatedImages, events, synced, result>>
       ELSE /\ events' = Emit(events, [type |-> "completed", index |-> 0,
                                       generated |-> Len(generatedImages),
                                       total |-> numCalls])
            /\ generatedImages' = SortImages(generatedImages)
            /\ synced' = IF req.firebase /\ ~req.skipSync
                         THEN SyncTargets(generatedImages') ELSE <<>>
            /\ result' = [returned |-> TRUE, success |-> TRUE,
                          images |-> generatedImages', error |-> "none"]
            /\ pc' = "returned"
            /\ UNCHANGED <<queue, inProgress, unit, dispatchLog>>
    /\ UNCHANGED <<req, refState, payload, numCalls>>
    /\ UNCHANGED outsidePipeline

\* line 536: await Promise.race(inProgress) resumes once one of the
\* in-flight promises is settled
RaceResume ==
    /\ pc = "race"
    /\ \E n \in 1..Len(inProgress) : Settled(inProgress[n])
    /\ pc' = "sweep"
    /\ UNCHANGED <<req, refState, payload, numCalls, queue, inProgress, unit,
                   dispatchLog, generatedImages, events, synced, result>>
    /\ UNCHANGED outsidePipeline

\* lines 537-546: the sweep over the in-flight list, then back to line 513
Sweep ==
    /\ pc = "sweep"
    /\ inProgress' = SweepLoop(inProgress, Len(inProgress))
    /\ pc' = "loop"
    /\ UNCHANGED <<req, refState, payload, numCalls, queue, unit, dispatchLog,
                   generatedImages, events, synced, result>>
    /\ UNCHANGED outsidePipeline

\* ------------------------------------------------- one generation unit
\* The steps of generateAndDownloadImage are completions of I/O or timers:
\* they run only while the coroutine of generateImages is suspended at line
\* 536 on a race none of whose promises is settled.
EventLoopIdle ==
    /\ pc = "race"
    /\ \A n \in 1..Len(inProgress) : ~Settled(inProgress[n])

Event(type, i) == [type |-> type, index |-> i, generated |-> 0, total |-> 0]

\* the message of an 'error' progress event: its text and the HTTP status
\* written into it (0 when there is none)
Message(text, status) == [text |-> text, status |-> status]

\* lines 410-414 and 423-427: the 'error' progress event of unit i
ErrorEvent(i, msg) ==
    [type |-> "error", index |-> i, generated |-> 0, total |-> 0, message |-> msg]

\* lines 343-363: the message of the Error makeStreamingRequest rejects with;
\* line 425 passes it to onProgress as it is
RequestErrorMessage(why) ==
    CASE why = "http429" -> Message("API Error", 429)
      [] why = "http500" -> Message("API Error", 500)
      [] why = "network" -> Message("Network error", 0)
      [] why = "timeout" -> Message("Request timed out", 0)

\* the unit's async function returns `img`; lines 527-529 push it
SettleWithImage(i, img) ==
    /\ unit' = [unit EXCEPT ![i].st = "settled", ![i].outcome = "image"]
    /\ generatedImages' = Append(generatedImages, img)

\* the unit's async function returns null
SettleWithNull(i, why) ==
    /\ unit' = [unit EXCEPT ![i].st = "settled", ![i].outcome = why]
    /\ UNCHANGED generatedImages

\* { url, size } and { url, size, localPath, downloadTime }
ImageNoPath(i) == [url |-> i, size |-> "2K", localPath |-> NoPath, downloadTime |-> FALSE]
ImageWithPath(i) ==
    [url |-> i, size |-> "2K", localPath |-> [present |-> TRUE, name |-> Filename(0, i)],
     downloadTime |-> TRUE]

\* lines 335-352: the response arrives with status 200
Response200(i) ==
    /\ EventLoopIdle
    /\ unit[i].st = "requesting"
    /\ unit' = [unit EXCEPT ![i].st = "streaming"]
    /\ UNCHANGED <<req, pc, refState, payload, numCalls, queue, inProgress,
                   dispatchLog, generatedImages, events, synced, result>>
    /\ UNCHANGED outsidePipeline

\* lines 338-364 and 421-429: non-200 response, network error or timeout
RequestFail(i) ==
    /\ EventLoopIdle
    /\ unit[i].st = "requesting"
    /\ \E why \in {"http429", "http500", "network", "timeout"} :
          /\ SettleWithNull(i, why)
          /\ events' = Emit(events, ErrorEvent(i, RequestErrorMessage(why)))
    /\ UNCHANGED <<req, pc, refState, payload, numCalls, queue, inProgress,
                   dispatchLog, synced, result>>
    /\ UNCHANGED outsidePipeline

\* lines 279-289 and 386-417: a frame of another type, [DONE], empty data or
\* unparseable JSON is skipped and changes nothing
FrameSkipped(i) ==
    /\ EventLoopIdle
    /\ unit[i].st = "streaming"
    /\ UNCHANGED vars

\* FrameSucceeded without the shouldDownload test of line 399
FrameSucceededAlwaysDownloads(i) ==
    /\ EventLoopIdle
    /\ unit[i].st = "streaming"
    /\ events' = Emit(events, Event("image", i))
    /\ unit' = [unit EXCEPT ![i].st = "mkdir", ![i].frame = "succeeded"]
    /\ UNCHANGED <<req, pc, refState, payload, numCalls, queue, inProgress,
                   dispatchLog, generatedImages, synced, result>>
    /\ UNCHANGED outsidePipeline

\* lines 387-409: the success frame; with shouldDownload, downloadImage is
\* called (and issues its mkdir) before the handler gives up control
FrameSucceeded(i) ==
    /\ EventLoopIdle
    /\ unit[i].st = "streaming"
    /\ events' = Emit(events, Event("image", i))
    /\ IF req.download
       THEN /\ unit' = [unit EXCEPT ![i].st = "mkdir", ![i].frame = "succeeded"]
            /\ UNCHANGED generatedImages
       ELSE /\ unit' = [unit EXCEPT ![i].st = "settled", ![i].outcome = "image",
                                    ![i].frame = "succeeded"]
            /\ generatedImages' = Append(generatedImages, ImageNoPath(i))
    /\ UNCHANGED <<req, pc, refState, payload, numCalls, queue, inProgress,
                   dispatchLog, synced, result>>
    /\ UNCHANGED outsidePipeline

\* lines 410-416: the failure frame
FrameFailed(i) ==
    /\ EventLoopIdle
    /\ unit[i].st = "streaming"
    /\ events' = Emit(events, ErrorEvent(i, Message("Image generation failed", 0)))
    /\ unit' = [unit EXCEPT ![i].st = "settled", ![i].outcome = "failedFrame",
                            ![i].frame = "failed"]
    /\ UNCHANGED generatedImages
    /\ UNCHANGED <<req, pc, refState, payload, numCalls, queue, inProgress,
                   dispatchLog, synced, result>>
    /\ UNCHANGED outsidePipeline

\* line 420: the stream ends without a deciding frame
StreamEnd(i) ==
    /\ EventLoopIdle
    /\ unit[i].st = "streaming"
    /\ SettleWithNull(i, "streamEnd")
    /\ UNCHANGED <<req, pc, refState, payload, numCalls, queue, inProgress,
                   dispatchLog, events, synced, result>>
    /\ UNCHANGED outsidePipeline

\* lines 421-429: reading the stream throws
StreamError(i) ==
    /\ EventLoopIdle
    /\ unit[i].st = "streaming"
    /\ events' = Emit(events, ErrorEvent(i, Message("stream error", 0)))
    /\ SettleWithNull(i, "streamError")
    /\ UNCHANGED <<req, pc, refState, payload, numCalls, queue, inProgress,
                   dispatchLog, synced, result>>
    /\ UNCHANGED outsidePipeline

\* line 171: mkdir completes; a rejection leaves downloadImage and is caught
\* at line 404
MkdirDone(i) ==
    /\ EventLoopIdle
    /\ unit[i].st = "mkdir"
    /\ \E ok \in BOOLEAN :
          IF ok THEN /\ unit' = [unit EXCEPT ![i].st = "downloading", ![i].gets = 1]
                     /\ UNCHANGED generatedImages
          ELSE /\ unit' = [unit EXCEPT ![i].st = "settled", ![i].outcome = "image",
                                       ![i].thrown = [stage |-> "mkdir", attempt |-> 0]]
               /\ generatedImages' = Append(generatedImages, ImageNoPath(i))
    /\ UNCHANGED <<req, pc, refState, payload, numCalls, queue, inProgress,
                   dispatchLog, events, synced, result>>
    /\ UNCHANGED outsidePipeline

\* lines 183-192: an attempt (GET and writeFile) succeeds
DownloadOk(i) ==
    /\ EventLoopIdle
    /\ unit[i].st = "downloading"
    /\ SettleWithImage(i, ImageWithPath(i))
    /\ UNCHANGED <<req, pc, refState, payload, numCalls, queue, inProgress,
                   dispatchLog, events, synced, result>>
    /\ UNCHANGED outsidePipeline

\* DownloadFail with <= for < in the test of line 195: sleeps after the
\* last attempt as well and goes on to a further attempt
DownloadFailSleepsAgain(i) ==
    /\ EventLoopIdle
    /\ unit[i].st = "downloading"
    /\ LET error == [stage |-> "get", attempt |-> unit[i].attempt]
       IN IF unit[i].attempt <= RETRY_ATTEMPTS
          THEN /\ unit' = [unit EXCEPT ![i].st = "sleeping", ![i].lastError = error,
                              ![i].slept = Append(@, RETRY_DELAY * (unit[i].attempt + 1))]
               /\ UNCHANGED generatedImages
          ELSE /\ unit' = [unit EXCEPT ![i].st = "settled", ![i].outcome = "image",
                                       ![i].lastError = error, ![i].thrown = error]
               /\ generatedImages' = Append(generatedImages, ImageNoPath(i))
    /\ UNCHANGED <<req, pc, refState, payload, numCalls, queue, inProgress,
                   dispatchLog, events, synced, result>>
    /\ UNCHANGED outsidePipeline

\* lines 193-201: an attempt fails; sleep when another attempt follows,
\* otherwise throw lastError, which line 404 catches
DownloadFail(i) ==
    /\ EventLoopIdle
    /\ unit[i].st = "downloading"
    /\ LET error == [stage |-> "get", attempt |-> unit[i].attempt]
       IN IF unit[i].attempt < RETRY_ATTEMPTS
          THEN /\ unit' = [unit EXCEPT ![i].st = "sleeping", ![i].lastError = error,
                              ![i].slept = Append(@, RETRY_DELAY * (unit[i].attempt + 1))]
               /\ UNCHANGED generatedImages
          ELSE /\ unit' = [unit EXCEPT ![i].st = "settled", ![i].outcome = "image",
                                       ![i].lastError = error, ![i].thrown = error]
               /\ generatedImages' = Append(generatedImages, ImageNoPath(i))
    /\ UNCHANGED <<req, pc, refState, payload, numCalls, queue, inProgress,
                   dispatchLog, events, synced, result>>
    /\ UNCHANGED outsidePipeline

\* line 196: the timer of sleep fires, the for loop goes to the next attempt
SleepDone(i) ==
    /\ EventLoopIdle
    /\ unit[i].st = "sleeping"
    /\ unit' = [unit EXCEPT ![i].st = "downloading", ![i].attempt = @ + 1,
                            ![i].gets = @ + 1]
    /\ UNCHANGED <<req, pc, refState, payload, numCalls, queue, inProgress,
                   dispatchLog, generatedImages, events, synced, result>>
    /\ UNCHANGED outsidePipeline

Next ==
    \/ Start
    \/ Prepare
    \/ Schedule
    \/ RaceResume
    \/ Sweep
    \/ \E i \in DOMAIN refState : ReadFileOk(i)
    \/ \E i \in DOMAIN refState : ReadFileFail(i)
    \/ \E i \in DOMAIN unit : Response200(i)
    \/ \E i \in DOMAIN unit : RequestFail(i)
    \/ \E i \in DOMAIN unit : FrameSkipped(i)
    \/ \E i \in DOMAIN unit : FrameSucceeded(i)
    \/ \E i \in DOMAIN unit : FrameFailed(i)
    \/ \E i \in DOMAIN unit : StreamEnd(i)
    \/ \E i \in DOMAIN unit : StreamError(i)
    \/ \E i \in DOMAIN unit : MkdirDone(i)
    \/ \E i \in DOMAIN unit : DownloadOk(i)
    \/ \E i \in DOMAIN unit : DownloadFail(i)
    \/ \E i \in DOMAIN unit : SleepDone(i)

Spec == Init /\ [][Next]_vars

\* The event loop keeps running: a runnable continuation runs, and every
\* remote call, download attempt, file read and timer eventually completes.
FairSpec == Spec /\ WF_vars(Next)


\* ============================================ the components on their own
\* generateImages is not running
PipelineOff ==
    /\ req = [apiKey |-> FALSE, batch |-> [given |-> FALSE, k |-> 0], images |-> <<>>,
              download |-> FALSE, progress |-> FALSE, firebase |-> FALSE,
              skipSync |-> FALSE]
    /\ pc = "off"
    /\ refState = <<>>
    /\ payload = NoPayload
    /\ numCalls = 0
    /\ queue = <<>>
    /\ inProgress = <<>>
    /\ unit = <<>>
    /\ dispatchLog = <<>>
    /\ generatedImages = <<>>
    /\ events = <<>>
    /\ synced = <<>>
    /\ result = NoResult

\* ------------------------------------------------ fileToBase64 on its own
\* Local paths are named 1..MaxPaths, two more than the cache is meant to
\* hold; a path is spelled plainly or with a leading "./".  Path 1 is asked
\* for any number of times, also while it is being read; the other paths are
\* asked for once each, in order, while no other read is in progress.  The
\* clock advances by CACHE_TTL at a time, while no read is in progress (a
\* file read takes less time than that), and every file has new content
\* each time it does.
MaxPaths == CACHE_MAX_SIZE + 2

RawPaths == [name : 1..MaxPaths, dotSlash : BOOLEAN]

\* line 120: path.resolve
Resolve(raw) == raw.name

Tick == CACHE_TTL

\* the content of every file at time now
ContentAt(now) == now \div Tick

\* lines 129-131: the data URL of a file's content
EncodeContent(path, version) == [path |-> path, version |-> version]

\* the position of key in the Map, 0 when it has no entry
PositionOf(cache, key) ==
    IF \E n \in 1..Len(cache) : cache[n].key = key
    THEN CHOOSE n \in 1..Len(cache) : cache[n].key = key
    ELSE 0

\* lines 103-107: delete the entries older than CACHE_TTL
RECURSIVE DropExpired(_, _)
DropExpired(cache, now) ==
    IF cache = <<>> THEN <<>>
    ELSE IF now - Head(cache).timestamp > CACHE_TTL
         THEN DropExpired(Tail(cache), now)
         ELSE <<Head(cache)>> \o DropExpired(Tail(cache), now)

\* lines 109-112: delete the first key while the Map is too large
RECURSIVE EvictOldest(_)
EvictOldest(cache) ==
    IF Len(cache) > CACHE_MAX_SIZE THEN EvictOldest(Tail(cache)) ELSE cache

\* lines 101-114
CleanCache(cache, now) == EvictOldest(DropExpired(cache, now))

\* the entries the loop of lines 110-113 deleted in that call
SizeEvicted(cache, now) ==
    LET live == DropExpired(cache, now)
    IN SubSeq(live, 1, Len(live) - Len(EvictOldest(live)))

\* Map.prototype.set: a key that has an entry keeps its position
CacheSet(cache, key, value) ==
    LET n == PositionOf(cache, key)
        entry == [key |-> key, data |-> value.data, timestamp |-> value.timestamp]
    IN IF n = 0 THEN Append(cache, entry) ELSE [cache EXCEPT ![n] = entry]

\* IsLive with <= for < in the test of line 124
IsLiveInclusive(entry, now) == now - entry.timestamp <= CACHE_TTL

\* line 124: the entry may be served
IsLive(entry, now) == now - entry.timestamp < CACHE_TTL

CacheInit ==
    /\ PipelineOff /\ StreamIdle /\ ClassifierIdle /\ TaskIdle /\ AddedIdle
    /\ CacheIdle

\* lines 119-128: fileToBase64 up to its await; a hit returns the cached
\* payload, a miss starts the file read (found: the timestamp of the entry
\* that was too old, -1 when there was none)
CallFileToBase64(raw) ==
    LET absolutePath == Resolve(raw)
        n == PositionOf(base64Cache, absolutePath)
    IN /\ \/ absolutePath = 1
          \/ absolutePath = freshPaths + 1 /\ reading = <<>>
       /\ freshPaths' = IF absolutePath > freshPaths THEN absolutePath ELSE freshPaths
       /\ IF n # 0 /\ IsLive(base64Cache[n], clock)
          THEN /\ lastCall' = [path |-> absolutePath, served |-> TRUE,
                               data |-> base64Cache[n].data, at |-> clock,
                               stamp |-> base64Cache[n].timestamp, evicted |-> <<>>]
               /\ UNCHANGED reading
          ELSE /\ Len(reading) < MaxReading
               /\ reading' = Append(reading,
                      [path |-> absolutePath, at |-> clock,
                       found |-> IF n = 0 THEN -1 ELSE base64Cache[n].timestamp])
               /\ lastCall' = NoCall
       /\ UNCHANGED <<base64Cache, clock, outsideCache>>

Without(seq, k) == SubSeq(seq, 1, k - 1) \o SubSeq(seq, k + 1, Len(seq))

\* lines 128-137: the file read completed; encode, cleanCache, set, return
ReadDone(k) ==
    LET absolutePath == reading[k].path
        base64Data == EncodeContent(absolutePath, ContentAt(clock))
    IN /\ base64Cache' = CacheSet(CleanCache(base64Cache, clock), absolutePath,
                                  [data |-> base64Data, timestamp |-> clock])
       /\ lastCall' = [path |-> absolutePath, served |-> FALSE, data |-> base64Data,
                       at |-> clock, stamp |-> clock,
                       evicted |-> SizeEvicted(base64Cache, clock)]
       /\ reading' = Without(reading, k)
       /\ UNCHANGED <<clock, freshPaths, outsideCache>>

\* line 128: the file read failed; fileToBase64 rejects, the cache is as it
\* was (the files of the paths asked for once are readable)
ReadFailed(k) ==
    /\ reading[k].path = 1
    /\ reading' = Without(reading, k)
    /\ lastCall' = NoCall
    /\ UNCHANGED <<base64Cache, clock, freshPaths, outsideCache>>

\* time passes
ClockTick ==
    /\ reading = <<>>
    /\ clock < MaxTicks * Tick
    /\ clock' = clock + Tick
    /\ lastCall' = NoCall
    /\ UNCHANGED <<base64Cache, reading, freshPaths, outsideCache>>

CacheNext ==
    \/ \E raw \in RawPaths : CallFileToBase64(raw)
    \/ \E k \in DOMAIN reading : ReadDone(k)
    \/ \E k \in DOMAIN reading : ReadFailed(k)
    \/ ClockTick

CacheSpec == CacheInit /\ [][CacheNext]_vars

\* ------------------------------------------------- one response stream
\* A line of the response body: whether it starts with "data: ", and what
\* follows the prefix: nothing but blanks, the marker [DONE], text that is not
\* JSON, the JSON value null, or a JSON object with its type, url and size.
SseObjectTypes == {"image_generation.partial_succeeded",
                   "image_generation.partial_failed",
                   "image_generation.completed"}

SseLine(prefix, form, type, url, size) ==
    [prefix |-> prefix, form |-> form, type |-> type, url |-> url, size |-> size]

SseLinePool ==
    {SseLine(TRUE, form, "none", "none", "none") : form \in {"empty", "done", "garbage", "null"}}
    \cup {SseLine(TRUE, "object", "image_generation.partial_succeeded", url, size) :
             url \in {"url1", "url2"}, size \in {"1K", "none"}}
    \cup {SseLine(TRUE, "object", type, "none", "none") :
             type \in SseObjectTypes \ {"image_generation.partial_succeeded"}}
    \cup {SseLine(FALSE, "object", "image_generation.partial_succeeded", "url1", "1K")}

NoEvent == SseLine(TRUE, "skipped", "none", "none", "none")

\* ParseLine that lets the exception of JSON.parse escape (no try at line 284)
ParseLineThrows(line) ==
    IF ~line.prefix THEN NoEvent
    ELSE IF line.form \in {"empty", "done"} THEN NoEvent
    ELSE IF line.form = "garbage" THEN [line EXCEPT !.form = "exception"]
    ELSE line

\* lines 279-289: what parseSSEStream yields for one line (NoEvent: nothing)
ParseLine(line) ==
    IF ~line.prefix THEN NoEvent
    ELSE IF line.form \in {"empty", "done"} THEN NoEvent
    ELSE IF line.form = "garbage" THEN NoEvent
    ELSE line

\* lines 386-429: what generateAndDownloadImage does with one event: return
\* an image or null, go on to the next event, or throw into the catch of
\* line 421 (reading .type of null is a TypeError), which returns null
HandleEvent(event) ==
    IF event.form = "skipped" THEN NoOutcome
    ELSE IF event.form \in {"null", "exception"}
         THEN [kind |-> "threw", url |-> "none", size |-> "none"]
    ELSE IF event.type = "image_generation.partial_succeeded"
         THEN [kind |-> "image", url |-> event.url,
               size |-> IF event.size = "none" THEN "2K" ELSE event.size]
    ELSE IF event.type = "image_generation.partial_failed"
         THEN [kind |-> "null", url |-> "none", size |-> "none"]
    ELSE NoOutcome

StreamInit ==
    /\ PipelineOff /\ CacheIdle /\ ClassifierIdle /\ TaskIdle /\ AddedIdle
    /\ sseLines \in SeqsUpTo(SseLinePool, MaxLines)
    /\ ssePos = 0
    /\ sseOutcome = NoOutcome

\* the for-await loops of lines 275 and 386 take the next line
ConsumeLine ==
    /\ sseOutcome.kind = "none"
    /\ ssePos < Len(sseLines)
    /\ ssePos' = ssePos + 1
    /\ sseOutcome' = HandleEvent(ParseLine(sseLines[ssePos + 1]))
    /\ UNCHANGED <<sseLines, outsideStream>>

\* line 420: the stream ended and no event decided
EndOfStream ==
    /\ sseOutcome.kind = "none"
    /\ ssePos = Len(sseLines)
    /\ sseOutcome' = [kind |-> "null", url |-> "none", size |-> "none"]
    /\ UNCHANGED <<sseLines, ssePos, outsideStream>>

StreamNext == ConsumeLine \/ EndOfStream

StreamSpec == StreamInit /\ [][StreamNext]_vars

\* ------------------------------------------------------ handleApiError
HttpStatuses == {400, 401, 403, 404, 429, 500, 503}

ErrorValue(source, axios, response, status, code, httpStatus, connCode) ==
    [source |-> source, axios |-> axios, response |-> response, status |-> status,
     code |-> code, httpStatus |-> httpStatus, connCode |-> connCode]

\* lines 338-363: makeStreamingRequest rejects with a new Error whose message
\* holds the status of the response or the code of the socket error; the
\* Error itself has neither a response nor a code property
StreamErrors ==
    {ErrorValue("stream", FALSE, FALSE, 0, "none", s, "none") : s \in HttpStatuses}
    \cup {ErrorValue("stream", FALSE, FALSE, 0, "none", 0, c) :
             c \in {"ECONNREFUSED", "ECONNRESET", "none"}}

\* lines 183-188: axios.get rejects with an AxiosError (with the response, or
\* with a code), writeFile with a system error
DownloadErrors ==
    {ErrorValue("download", TRUE, TRUE, s, "ERR_BAD_RESPONSE", s, "none") : s \in HttpStatuses}
    \cup {ErrorValue("download", TRUE, FALSE, 0, c, 0, c) :
             c \in {"ECONNABORTED", "ECONNREFUSED", "ENOTFOUND"}}
    \cup {ErrorValue("download", FALSE, FALSE, 0, "ENOSPC", 0, "none")}

\* line 128: readFile rejects with a system error
ResolverErrors ==
    {ErrorValue("resolver", FALSE, FALSE, 0, c, 0, "none") : c \in {"ENOENT", "EACCES"}}

ClassifierInit ==
    /\ PipelineOff /\ CacheIdle /\ StreamIdle /\ TaskIdle /\ AddedIdle
    /\ raised = NoRaised
    /\ classified = [err |-> NoRaised, message |-> "none"]

RaiseStreamError ==
    /\ raised = NoRaised
    /\ raised' \in StreamErrors
    /\ UNCHANGED <<classified, outsideClassifier>>

RaiseDownloadError ==
    /\ raised = NoRaised
    /\ raised' \in DownloadErrors
    /\ UNCHANGED <<classified, outsideClassifier>>

RaiseResolverError ==
    /\ raised = NoRaised
    /\ raised' \in ResolverErrors
    /\ UNCHANGED <<classified, outsideClassifier>>

\* handleApiError(raised)
Classify ==
    /\ raised # NoRaised
    /\ classified' = [err |-> raised, message |-> HandleApiError(raised)]
    /\ raised' = NoRaised
    /\ UNCHANGED <<outsideClassifier>>

ClassifierNext ==
    \/ RaiseStreamError
    \/ RaiseDownloadError
    \/ RaiseResolverError
    \/ Classify

ClassifierSpec == ClassifierInit /\ [][ClassifierNext]_vars

\* -------------------------------------------------------- the final sort
\* The images collected at line 528, in the order the units settled: one
\* image at most per unit (its url names the unit), with the file of its
\* download, written in one of two seconds, or without a file.
SortUnits == {1, 2, 9, 10}

CollectedImage(i, withPath, second) ==
    [url |-> i, size |-> "2K",
     localPath |-> IF withPath THEN [present |-> TRUE, name |-> Filename(second, i)]
                   ELSE NoPath,
     downloadTime |-> withPath]

CollectedImages ==
    {CollectedImage(i, TRUE, second) : i \in SortUnits, second \in {0, 1}}
    \cup {CollectedImage(i, FALSE, 0) : i \in SortUnits}

CollectedLists ==
    {l \in SeqsUpTo(CollectedImages, Cardinality(SortUnits)) :
        \A m, n \in 1..Len(l) : m # n => l[m].url # l[n].url}

SortInit ==
    /\ PipelineOff /\ CacheIdle /\ StreamIdle /\ ClassifierIdle /\ TaskIdle
    /\ ChunkIdle /\ HandlerIdle /\ NameIdle /\ ReporterIdle
    /\ sortInput \in CollectedLists
    /\ sortOutput = [done |-> FALSE, images |-> <<>>]

\* lines 565-570
ApplySort ==
    /\ ~sortOutput.done
    /\ sortOutput' = [done |-> TRUE, images |-> SortImages(sortInput)]
    /\ UNCHANGED <<sortInput, pipelineVars, cacheVars, streamVars, classifierVars,
                   taskVars, chunkVars, handlerVars, nameVars, reporterVars>>

SortNext == ApplySort

SortSpec == SortInit /\ [][SortNext]_vars

\* ------------------------------------------------------------ the byte stream
\* parseSSEStream over the chunks of one response. The response is a
\* sequence of bytes that the transport hands over in chunks cut anywhere;
\* each chunk is decoded on its own (chunk.toString()) and appended to the
\* line buffer.

\* lines and unterminated tail of one response
MaxSseLines == 2

\* UTF-8 bytes: ASCII bytes stand for themselves, "C3" "A9" is the two-byte
\* encoding of U+00E9
Prefix == <<"d", "a", "t", "a", ":", " ">>

ChunkLinePool ==
    { Prefix \o <<"1", "\n">>,
      Prefix \o <<"\"", "C3", "A9", "\"", "\n">>,
      Prefix \o <<"x", "\n">>,
      Prefix \o <<"[", "D", "O", "N", "E", "]", "\n">>,
      Prefix \o <<" ", "\n">>,
      <<"1", "\n">>,
      <<"\n">> }

\* what may follow the last newline of a response
ChunkTails == { <<>>, Prefix \o <<"1">> }

RECURSIVE Concat(_)
Concat(seqs) == IF seqs = <<>> THEN <<>> ELSE Head(seqs) \o Concat(Tail(seqs))

ChunkStreams ==
    { Concat(ls) \o t : ls \in SeqsUpTo(ChunkLinePool, MaxSseLines) \ {<<>>},
                        t \in ChunkTails }

\* Buffer.toString(): UTF-8 decoding of one chunk; a byte that is no
\* complete sequence within the chunk becomes U+FFFD
RECURSIVE Utf8Decode(_)
Utf8Decode(bytes) ==
    IF bytes = <<>> THEN <<>>
    ELSE IF bytes[1] = "C3" /\ Len(bytes) >= 2 /\ bytes[2] = "A9"
         THEN <<"U+00E9">> \o Utf8Decode(SubSeq(bytes, 3, Len(bytes)))
    ELSE IF bytes[1] \in {"C3", "A9"}
         THEN <<"U+FFFD">> \o Utf8Decode(Tail(bytes))
    ELSE <<bytes[1]>> \o Utf8Decode(Tail(bytes))

\* String.prototype.split("\n")
RECURSIVE SplitLines(_)
SplitLines(text) ==
    IF \A n \in 1..Len(text) : text[n] # "\n" THEN <<text>>
    ELSE LET n == CHOOSE n \in 1..Len(text) :
                      /\ text[n] = "\n"
                      /\ \A m \in 1..(n - 1) : text[m] # "\n"
         IN <<SubSeq(text, 1, n - 1)>> \o SplitLines(SubSeq(text, n + 1, Len(text)))

StartsWith(text, prefix) ==
    Len(text) >= Len(prefix) /\ SubSeq(text, 1, Len(prefix)) = prefix

\* String.prototype.trim()
RECURSIVE Trim(_)
Trim(text) ==
    IF text # <<>> /\ text[1] = " " THEN Trim(Tail(text))
    ELSE IF text # <<>> /\ text[Len(text)] = " "
         THEN Trim(SubSeq(text, 1, Len(text) - 1))
    ELSE text

\* the JSON texts of the alphabet: the number 1 and a string literal
IsJson(text) ==
    \/ text = <<"1">>
    \/ /\ Len(text) >= 2
       /\ text[1] = "\"" /\ text[Len(text)] = "\""
       /\ \A n \in 2..(Len(text) - 1) : text[n] \notin {"\"", "\n"}

\* JSON.parse of a text for which IsJson holds
JsonParse(text) ==
    IF text = <<"1">> THEN [type |-> "number", value |-> <<"1">>]
    ELSE [type |-> "string", value |-> SubSeq(text, 2, Len(text) - 1)]

\* lines 280-291: what the complete lines yield, in order
RECURSIVE YieldsOf(_)
YieldsOf(lines) ==
    IF lines = <<>> THEN <<>>
    ELSE LET line == Head(lines)
             data == Trim(SubSeq(line, Len(Prefix) + 1, Len(line)))
         IN (IF /\ StartsWith(line, Prefix)
                /\ data # <<>>
                /\ data # <<"[", "D", "O", "N", "E", "]">>
                /\ IsJson(data)
             THEN <<JsonParse(data)>> ELSE <<>>) \o YieldsOf(Tail(lines))

ChunkInit ==
    /\ PipelineOff
    /\ CacheIdle /\ StreamIdle /\ ClassifierIdle /\ TaskIdle
    /\ SortIdle /\ HandlerIdle /\ NameIdle /\ ReporterIdle
    /\ chunkStream \in ChunkStreams
    /\ chunkRest = chunkStream
    /\ chunkBuffer = <<>>
    /\ chunkYielded = <<>>

\* one turn of the loop of lines 273-291 for a chunk of k bytes
NextChunk(k) ==
    /\ k \in 1..Len(chunkRest)
    /\ LET chunk == SubSeq(chunkRest, 1, k)
           lines == SplitLines(chunkBuffer \o Utf8Decode(chunk))
       IN /\ chunkBuffer' = lines[Len(lines)]
          /\ chunkYielded' =
                 chunkYielded \o YieldsOf(SubSeq(lines, 1, Len(lines) - 1))
    /\ chunkRest' = SubSeq(chunkRest, k + 1, Len(chunkRest))
    /\ UNCHANGED chunkStream
    /\ UNCHANGED <<pipelineVars, cacheVars, streamVars, classifierVars, taskVars,
                   sortVars, handlerVars, nameVars, reporterVars>>

ChunkNext == \E k \in 1..Len(chunkRest) : NextChunk(k)

ChunkSpec == ChunkInit /\ [][ChunkNext]_vars

\* ------------------------------------------------------ the HTTP handler
\* HttpMcpHandler.handleRequest after ensureConnected: the calls of several
\* HTTP clients share one pendingRequests map keyed by the JSON-RPC id each
\* client chose. httpRequests lists the calls in arrival order, serverInbox
\* the calls the server has still to answer.
MaxRequests == 3
RequestIds == {1, 2}

outsideHandler == <<pipelineVars, cacheVars, streamVars, classifierVars, taskVars,
                    sortVars, chunkVars, nameVars, reporterVars>>

HandlerInit ==
    /\ PipelineOff
    /\ CacheIdle /\ StreamIdle /\ ClassifierIdle /\ TaskIdle
    /\ SortIdle /\ ChunkIdle /\ NameIdle /\ ReporterIdle
    /\ pendingRequests = {}
    /\ httpRequests = <<>>
    /\ serverInbox = {}

\* Map.delete(id)
PendingDelete(pending, id) == {e \in pending : e.id # id}

\* Map.set(id, {resolve, reject, timeout}) with the closures of call owner
PendingSet(pending, id, owner) ==
    PendingDelete(pending, id) \cup {[id |-> id, owner |-> owner]}

\* lines 745-746, 753-768: a request with an id, the send succeeds
HandleRequest(id) ==
    /\ Len(httpRequests) < MaxRequests
    /\ LET r == Len(httpRequests) + 1
       IN /\ httpRequests' = Append(httpRequests,
                 [id |-> id, st |-> "awaiting", timer |-> TRUE, by |-> 0])
          /\ pendingRequests' = PendingSet(pendingRequests, id, r)
          /\ serverInbox' = serverInbox \cup {r}
    /\ UNCHANGED outsideHandler

\* lines 753-767: a request with an id, the send rejects
HandleRequestSendFails(id) ==
    /\ Len(httpRequests) < MaxRequests
    /\ httpRequests' = Append(httpRequests,
           [id |-> id, st |-> "rejected", timer |-> FALSE, by |-> 0])
    /\ pendingRequests' = PendingDelete(pendingRequests, id)
    /\ UNCHANGED serverInbox
    /\ UNCHANGED outsideHandler

\* lines 748-751: a notification
HandleNotification ==
    /\ Len(httpRequests) < MaxRequests
    /\ httpRequests' = Append(httpRequests,
           [id |-> 0, st |-> "returned", timer |-> FALSE, by |-> 0])
    /\ UNCHANGED <<pendingRequests, serverInbox>>
    /\ UNCHANGED outsideHandler

\* lines 717-727: the server's response to call r arrives
OnMessage(r) ==
    /\ r \in serverInbox
    /\ serverInbox' = serverInbox \ {r}
    /\ LET id == httpRequests[r].id
       IN IF \E e \in pendingRequests : e.id = id
          THEN LET e == CHOOSE e \in pendingRequests : e.id = id
               IN /\ pendingRequests' = PendingDelete(pendingRequests, id)
                  /\ httpRequests' =
                         [httpRequests EXCEPT ![e.owner] =
                             [@ EXCEPT !.st = "resolved", !.timer = FALSE,
                                       !.by = r]]
          ELSE UNCHANGED <<pendingRequests, httpRequests>>
    /\ UNCHANGED outsideHandler

\* lines 754-757: the timer of call r fires
RequestTimeout(r) ==
    /\ r \in DOMAIN httpRequests
    /\ httpRequests[r].timer
    /\ pendingRequests' = PendingDelete(pendingRequests, httpRequests[r].id)
    /\ httpRequests' = [httpRequests EXCEPT ![r] =
                           [@ EXCEPT !.st = "rejected", !.timer = FALSE]]
    /\ UNCHANGED serverInbox
    /\ UNCHANGED outsideHandler

HandlerNext ==
    \/ \E id \in RequestIds : HandleRequest(id)
    \/ \E id \in RequestIds : HandleRequestSendFails(id)
    \/ HandleNotification
    \/ \E r \in 1..MaxRequests : OnMessage(r)
    \/ \E r \in 1..MaxRequests : RequestTimeout(r)

HandlerSpec == HandlerInit /\ [][HandlerNext]_vars

\* ------------------------------------------------------ the background task
\* processTaskWithFirebase: the task record of one submitted task and the
\* generateImages invocation it awaits. task.pc is the position in the
\* function, task.status the status field of the record, task.writes the
\* statuses written so far, task.added the images added to the record. A
\* datastore call either succeeds, and then has written, or throws, and then
\* has written nothing.
MaxTaskCount == 3

outsideTask == <<cacheVars, streamVars, classifierVars, sortVars, chunkVars,
                 handlerVars, nameVars, reporterVars>>

pipelineRest == <<refState, payload, numCalls, queue, inProgress, unit, dispatchLog,
                  generatedImages, events, synced, result>>

TaskInit ==
    /\ PipelineOff
    /\ CacheIdle /\ StreamIdle /\ ClassifierIdle /\ AddedIdle
    /\ task = [NoTask EXCEPT !.pc = "create"]

\* updateTaskStatus(taskId, status) that succeeded
UpdateTaskStatus(t, status) ==
    [t EXCEPT !.status = status, !.writes = Append(@, status)]

\* a datastore call that threw: control passes to the catch of line 192
Thrown(t) == [t EXCEPT !.pc = "catch", !.datastoreFailed = TRUE]

\* lines 120-128
CreateTask(ok) ==
    /\ task.pc = "create"
    /\ task' = IF ok THEN [UpdateTaskStatus(task, "pending") EXCEPT !.pc = "created"]
               ELSE Thrown(task)
    /\ UNCHANGED <<pipelineVars, outsideTask>>

\* line 131
MarkGenerating(ok) ==
    /\ task.pc = "created"
    /\ task' = IF ok THEN [UpdateTaskStatus(task, "generating") EXCEPT !.pc = "generate"]
               ELSE Thrown(task)
    /\ UNCHANGED <<pipelineVars, outsideTask>>

\* lines 134-143: the call of generateImages
CallGenerate(count, apiKey) ==
    /\ task.pc = "generate"
    /\ task' = [task EXCEPT !.pc = "generating"]
    /\ req' = [apiKey |-> apiKey, batch |-> [given |-> TRUE, k |-> count],
               images |-> <<>>, download |-> TRUE, progress |-> FALSE,
               firebase |-> TRUE, skipSync |-> TRUE]
    /\ pc' = "start"
    /\ UNCHANGED <<pipelineRest, outsideTask>>

\* lines 145-189, once generateImages has returned: the failed result, or
\* the images added one by one and the task marked completed
AfterGenerate(ok) ==
    /\ task.pc = "generating"
    /\ pc = "returned"
    /\ IF ~result.success
       THEN task' = IF ok THEN [UpdateTaskStatus(task, "failed") EXCEPT !.pc = "done"]
                    ELSE Thrown(task)
       ELSE \/ /\ ok
               /\ task' = [UpdateTaskStatus(task, "completed") EXCEPT
                              !.pc = "done", !.added = Len(result.images)]
            \/ /\ ~ok
               /\ \E k \in 0..Len(result.images) :
                     task' = [Thrown(task) EXCEPT !.added = k]
    /\ UNCHANGED <<pipelineVars, outsideTask>>

\* lines 192-202
CatchBlock(ok) ==
    /\ task.pc = "catch"
    /\ task' = IF ok THEN [UpdateTaskStatus(task, "failed") EXCEPT !.pc = "done"]
               ELSE [task EXCEPT !.pc = "done"]
    /\ UNCHANGED <<pipelineVars, outsideTask>>

TaskNext ==
    \/ \E ok \in BOOLEAN : CreateTask(ok)
    \/ \E ok \in BOOLEAN : MarkGenerating(ok)
    \/ \E count \in 1..MaxTaskCount, apiKey \in BOOLEAN : CallGenerate(count, apiKey)
    \/ \E ok \in BOOLEAN : AfterGenerate(ok)
    \/ \E ok \in BOOLEAN : CatchBlock(ok)
    \/ Start
    \/ Prepare
    \/ Schedule
    \/ RaceResume
    \/ Sweep
    \/ \E i \in DOMAIN unit : Response200(i)
    \/ \E i \in DOMAIN unit : RequestFail(i)
    \/ \E i \in DOMAIN unit : FrameSkipped(i)
    \/ \E i \in DOMAIN unit : FrameSucceeded(i)
    \/ \E i \in DOMAIN unit : FrameFailed(i)
    \/ \E i \in DOMAIN unit : StreamEnd(i)
    \/ \E i \in DOMAIN unit : StreamError(i)
    \/ \E i \in DOMAIN unit : MkdirDone(i)
    \/ \E i \in DOMAIN unit : DownloadOk(i)
    \/ \E i \in DOMAIN unit : DownloadFail(i)
    \/ \E i \in DOMAIN unit : SleepDone(i)

\* the event loop keeps running and every datastore call, remote call,
\* download attempt and timer eventually completes
TaskSpec == TaskInit /\ [][TaskNext]_vars /\ WF_vars(TaskNext)

\* ------------------------------------------------------ the file names
\* downloadImage in concurrent generateImages invocations that share the
\* download directory (the default "./generated_images"). files holds every
\* write so far as the path written and the image written there; an image
\* is named by its invocation and its unit index. wallSecond is the wall
\* clock, to the second.
MaxSeconds == 2
MaxNameUnits == 2
Invocations == {1, 2}

outsideNames == <<pipelineVars, cacheVars, streamVars, classifierVars, taskVars,
                  sortVars, chunkVars, handlerVars, reporterVars>>

NameInit ==
    /\ PipelineOff
    /\ CacheIdle /\ StreamIdle /\ ClassifierIdle /\ TaskIdle
    /\ SortIdle /\ ChunkIdle /\ HandlerIdle /\ ReporterIdle
    /\ files = {}
    /\ wallSecond = 0

\* lines 174-176 and 186: the download of unit index of invocation inv
DownloadImage(inv, index) ==
    /\ \A f \in files : f.image # <<inv, index>>
    /\ files' = files \cup {[localPath |-> Filename(wallSecond, index),
                             image |-> <<inv, index>>]}
    /\ UNCHANGED wallSecond
    /\ UNCHANGED outsideNames

\* a second passes
TickSecond ==
    /\ wallSecond < MaxSeconds
    /\ wallSecond' = wallSecond + 1
    /\ UNCHANGED files
    /\ UNCHANGED outsideNames

NameNext ==
    \/ \E inv \in Invocations, index \in 1..MaxNameUnits : DownloadImage(inv, index)
    \/ TickSecond

NameSpec == NameInit /\ [][NameNext]_vars

\* ------------------------------------------------------ the progress reporter
\* One ProgressReporter of a tool call. reporter holds its fields (stages is
\* the number of stages set, completed whether complete() has been called),
\* reporterNow is Date.now(), sent the notifications handed to the sender,
\* delivered or not.
MaxStages == 2
MaxReporterTicks == 4
minNotifyInterval == 1000

\* Date.now() when the reporter is constructed, and the step of the clock
ReporterEpoch == 10 * minNotifyInterval
ReporterTickMs == minNotifyInterval \div 2

\* progress tokens: absent, or a number or a string the client chose
ProgressTokens ==
    { [type |-> "undefined", text |-> ""],
      [type |-> "number", text |-> "0"], [type |-> "number", text |-> "7"],
      [type |-> "string", text |-> ""], [type |-> "string", text |-> "abc"] }

\* JavaScript truthiness of a token
Truthy(token) ==
    /\ token.type # "undefined"
    /\ ~(token.type = "number" /\ token.text = "0")
    /\ ~(token.type = "string" /\ token.text = "")

\* lines 45-47
IsEnabled(r) == Truthy(r.progressToken) /\ r.hasSender

outsideReporter == <<pipelineVars, cacheVars, streamVars, classifierVars, taskVars,
                     sortVars, chunkVars, handlerVars, nameVars>>

ReporterInit ==
    /\ PipelineOff
    /\ CacheIdle /\ StreamIdle /\ ClassifierIdle /\ TaskIdle
    /\ SortIdle /\ ChunkIdle /\ HandlerIdle /\ NameIdle
    /\ \E token \in ProgressTokens, hasSender \in BOOLEAN, stages \in {0, MaxStages} :
          reporter = [NoReporter EXCEPT !.progressToken = token,
                                        !.hasSender = hasSender, !.stages = stages]
    /\ reporterNow = ReporterEpoch
    /\ sent = <<>>

\* lines 60-83: whether report() gets past the two early returns
Passes(r, now) == IsEnabled(r) /\ ~(now - r.lastNotifyTime < minNotifyInterval)

\* lines 60-83: the reporter after report()
Reported(r, now) == IF Passes(r, now) THEN [r EXCEPT !.lastNotifyTime = now] ELSE r

\* lines 60-83: the notifications after report(); a sender that rejects is
\* caught at line 79
Notified(r, now, log, progress, total, message, ok) ==
    IF Passes(r, now)
    THEN Append(log, [progress |-> progress, total |-> total,
                      message |-> message, delivered |-> ok])
    ELSE log

\* lines 88-95
NextStage(ok) ==
    /\ ~reporter.completed
    /\ reporter.stages > 0
    /\ reporter.currentStage < reporter.stages
    /\ reporter' = [Reported(reporter, reporterNow) EXCEPT !.currentStage = @ + 1]
    /\ sent' = Notified(reporter, reporterNow, sent, reporter.currentStage,
                        reporter.stages, "stage", ok)
    /\ UNCHANGED reporterNow
    /\ UNCHANGED outsideReporter

\* lines 100-104
Complete(ok) ==
    /\ ~reporter.completed
    /\ LET n == IF reporter.stages # 0 THEN reporter.stages ELSE 100
       IN /\ reporter' = [Reported(reporter, reporterNow) EXCEPT !.completed = TRUE]
          /\ sent' = Notified(reporter, reporterNow, sent, n, n, "completed", ok)
    /\ UNCHANGED reporterNow
    /\ UNCHANGED outsideReporter

\* time passes between two calls
ReporterTick ==
    /\ reporterNow < ReporterEpoch + MaxReporterTicks * ReporterTickMs
    /\ reporterNow' = reporterNow + ReporterTickMs
    /\ UNCHANGED <<reporter, sent>>
    /\ UNCHANGED outsideReporter

ReporterNext ==
    \/ \E ok \in BOOLEAN : NextStage(ok)
    \/ \E ok \in BOOLEAN : Complete(ok)
    \/ ReporterTick

ReporterSpec == ReporterInit /\ [][ReporterNext]_vars

\* ============================================================ the claims

\* generateImages got past the credential gate and the reference images
PreflightPassed == Len(unit) > 0

InFlight == {i \in DOMAIN unit : unit[i].st \notin {"queued", "settled"}}

\* the unit count the request calls for
ExpectedUnits ==
    IF Len(req.images) = 0
    THEN Min(IF req.batch.given THEN req.batch.k ELSE 4, 15)
    ELSE 1

\* C1: the number of units generateImages dispatches is min(batchCount, 15)
\* without reference images (batchCount 4 when omitted) and 1 with reference
\* images; no unit is dispatched twice, no index outside 1..numCalls is used.
C1_UnitsDispatched ==
    /\ [](\A m, n \in 1..Len(dispatchLog) :
            /\ dispatchLog[m].index \in 1..numCalls
            /\ m # n => dispatchLog[m].index # dispatchLog[n].index)
    /\ (PreflightPassed ~> (Len(dispatchLog) = ExpectedUnits))

\* the value a reference image is sent as
ExpectedResolved(ref) ==
    IF ref.kind = "path" THEN [kind |-> "data", name |-> <<"image/jpeg;base64", ref.name>>]
    ELSE ref

\* C2: every unit's payload carries sequential_image_generation "disabled"
\* and an array-valued image (one resolved value per reference, in order)
\* iff the request has 2 or more reference images; with 1 reference image
\* the image field is the single resolved value and the flag is absent; with
\* 0 reference images neither field is present.
C2_PayloadShape ==
    \A n \in 1..Len(dispatchLog) :
        LET p == dispatchLog[n].payload
            refs == req.images
        IN /\ (p.seqGen = "disabled" /\ p.imageKind = "array") <=> Len(refs) >= 2
           /\ p.seqGen = "disabled" <=> p.imageKind = "array"
           /\ Len(refs) >= 2 =>
                 p.image = [i \in 1..Len(refs) |-> ExpectedResolved(refs[i])]
           /\ Len(refs) = 1 =>
                 /\ p.imageKind = "single"
                 /\ p.image = <<ExpectedResolved(refs[1])>>
           /\ Len(refs) = 0 => p.imageKind = "absent" /\ p.image = <<>>

\* a unit was dispatched for a request with two different reference images,
\* one of them a local file
C2_Witness ==
    /\ Len(dispatchLog) > 0
    /\ Len(req.images) = 2
    /\ req.images[1].kind = "path"
    /\ req.images[2].kind = "https"
    /\ dispatchLog[1].payload.imageKind = "array"

IncreasingUnitOrder(imgs) ==
    \A m, n \in 1..Len(imgs) : m < n => imgs[m].url < imgs[n].url

\* C3: for every invocation and every interleaving of completions, the
\* images of the returned result are in increasing order of the index of
\* the unit that produced them.
C3_ResultInUnitOrder ==
    PreflightPassed ~> (result.returned /\ IncreasingUnitOrder(result.images))

GenerationSucceeded(i) == unit[i].st \in {"mkdir", "downloading", "sleeping"}
                          \/ unit[i].outcome = "image"

ImagesOf(imgs, i) == {n \in 1..Len(imgs) : imgs[n].url = i}

\* C4: past pre-flight the result returned has success = true and holds
\* exactly one image per unit whose generation succeeded and none for a
\* unit whose generation failed.
C4_OneImagePerSucceededUnit ==
    PreflightPassed ~>
        (/\ result.returned
         /\ result.success
         /\ \A i \in DOMAIN unit :
               Cardinality(ImagesOf(result.images, i)) =
                   IF GenerationSucceeded(i) THEN 1 ELSE 0)

\* the download of unit i failed on every attempt
DownloadExhausted(i) ==
    /\ unit[i].outcome = "image"
    /\ unit[i].attempt = RETRY_ATTEMPTS
    /\ \E n \in 1..Len(generatedImages) :
          generatedImages[n].url = i /\ ~generatedImages[n].localPath.present

\* C5: a unit whose generation succeeded and whose download failed on every
\* attempt contributes an image with url and size and without localPath and
\* downloadTime, and the overall result keeps success = true.
C5_DownloadFailureKeepsImage ==
    (\E i \in DOMAIN unit : DownloadExhausted(i)) ~>
        (/\ result.returned
         /\ result.success
         /\ \A i \in DOMAIN unit :
               DownloadExhausted(i) =>
                   \E n \in 1..Len(result.images) :
                      /\ result.images[n].url = i
                      /\ ~result.images[n].localPath.present
                      /\ ~result.images[n].downloadTime)

FileReadsStarted == {i \in DOMAIN refState : refState[i] # "idle"}

\* C6: without an API credential generateImages returns success = false,
\* an empty image list and an error message, and makes no remote call, no
\* download, no reference-image file read, no datastore sync and emits no
\* progress event.
C6_CredentialGate ==
    ~req.apiKey =>
        /\ pc \in {"start", "returned"}
        /\ pc = "returned" =>
              /\ result.returned /\ ~result.success
              /\ result.images = <<>> /\ result.error # "none"
        /\ dispatchLog = <<>>
        /\ unit = <<>>
        /\ FileReadsStarted = {}
        /\ synced = <<>>
        /\ events = <<>>

\* returned without credential, for a request that names a local file, has
\* a progress callback and a configured datastore
C6_Witness ==
    /\ ~req.apiKey
    /\ result.returned
    /\ \E i \in DOMAIN refState : req.images[i].kind = "path"
    /\ req.progress /\ req.firebase /\ ~req.skipSync

\* C7: if resolving any one reference image throws, generateImages returns
\* success = false with an empty image list and dispatches no unit, however
\* many other references resolved.
C7_ResolutionAllOrNothing ==
    (\E i \in DOMAIN refState : refState[i] = "failed") =>
        /\ pc = "returned"
        /\ result.returned /\ ~result.success
        /\ result.images = <<>> /\ result.error # "none"
        /\ dispatchLog = <<>>
        /\ unit = <<>>

\* one local file was read and encoded, another could not be read
C7_Witness ==
    /\ result.returned
    /\ \E i, j \in DOMAIN refState :
          /\ refState[i] = "failed"
          /\ refState[j] = "resolved" /\ req.images[j].kind = "path"

GenerationFailed(i) ==
    /\ unit[i].st = "settled"
    /\ unit[i].outcome # "image"

\* C8: a failure inside one unit never interrupts its siblings: every other
\* unit of the invocation is still dispatched and runs to its own outcome.
C8_SiblingsUnaffected ==
    (\E i \in DOMAIN unit : GenerationFailed(i))
        ~> (\A j \in DOMAIN unit : Settled(j))

\* C9: if every remote call and download attempt settles, every invocation
\* eventually returns one result, and by then all numCalls units have been
\* dispatched and have finished.
C9_EventuallyReturns ==
    <>(result.returned /\ \A i \in DOMAIN unit : Settled(i))

\* C10: at every moment the number of units dispatched and not yet finished
\* is at most 2.
C10_AtMostTwoInFlight == Cardinality(InFlight) <= 2

\* two units are in flight while a third waits in the queue
C10_Witness == Cardinality(InFlight) = 2 /\ Len(queue) > 0

\* unit i is in the download phase of its generateAndDownloadImage
InDownloadPhase(i) == unit[i].st \in {"mkdir", "downloading", "sleeping"}

HoldsGenerationSlot(i) == \E n \in 1..Len(inProgress) : inProgress[n] = i

\* C11: the generation cap and the download cap are independent pools: a
\* unit in its download phase does not occupy one of the 2 generation slots,
\* so a queued unit can start generating while two other units are still
\* downloading.
C11_DownloadHoldsNoSlot ==
    \A i \in DOMAIN unit : InDownloadPhase(i) => ~HoldsGenerationSlot(i)

\* C15: downloadImage makes at most 3 network attempts (1 plus 2 retries) and
\* returns on the first that succeeds; after the n-th failed attempt it waits
\* n * 1000 ms (1000, then 2000) only when another attempt follows; after the
\* third failure it raises the error of that last attempt without sleeping
\* again.
C15_RetryBudget ==
    \A i \in DOMAIN unit :
        LET u == unit[i]
            failed == IF u.lastError.stage = "get" THEN u.lastError.attempt + 1 ELSE 0
        IN /\ u.gets <= 3
           /\ Len(u.slept) <= 2
           /\ \A n \in 1..Len(u.slept) : u.slept[n] = n * 1000
           /\ u.st = "sleeping" => Len(u.slept) = u.gets /\ failed = u.gets /\ u.gets < 3
           /\ u.st = "downloading" => Len(u.slept) = u.gets - 1 /\ failed = u.gets - 1
           /\ u.thrown.stage = "get" =>
                 /\ u.gets = 3 /\ failed = 3
                 /\ u.slept = <<1000, 2000>>
                 /\ u.thrown = [stage |-> "get", attempt |-> 2]
           /\ (u.st = "settled" /\ u.gets > 0 /\ u.thrown.stage = "none") =>
                 /\ Len(u.slept) = u.gets - 1 /\ failed = u.gets - 1
                 /\ \E n \in 1..Len(generatedImages) :
                       generatedImages[n].url = i /\ generatedImages[n].localPath.present

\* the third attempt of a download failed, after sleeps of 1000 and 2000 ms
C15_Witness ==
    \E i \in DOMAIN unit :
        /\ unit[i].thrown = [stage |-> "get", attempt |-> 2]
        /\ unit[i].gets = 3
        /\ unit[i].slept = <<1000, 2000>>

\* downloadImage was called for unit i
DownloadStarted(i) ==
    \/ InDownloadPhase(i)
    \/ unit[i].gets > 0
    \/ unit[i].thrown.stage # "none"

\* C16: within one unit the download starts only after that unit's own
\* success frame, starts with that frame without waiting for any other unit,
\* and is never started for a unit whose generation failed or when
\* downloading is disabled (then no collected image has a localPath).
C16_DownloadFollowsOwnFrame ==
    /\ \A i \in DOMAIN unit :
          /\ DownloadStarted(i) <=> (unit[i].frame = "succeeded" /\ req.download)
          /\ (GenerationFailed(i) \/ unit[i].frame = "failed") => ~DownloadStarted(i)
    /\ ~req.download =>
          /\ \A n \in 1..Len(generatedImages) : ~generatedImages[n].localPath.present
          /\ \A n \in 1..Len(result.images) : ~result.images[n].localPath.present

\* the second unit downloads while the first still waits for its response
C16_Witness ==
    /\ Len(unit) >= 2
    /\ unit[2].st = "downloading" /\ unit[2].frame = "succeeded"
    /\ unit[1].st = "requesting"

\* the 'error' progress events of unit i
ErrorEventsOf(i) ==
    {n \in 1..Len(events) : events[n].type = "error" /\ events[n].index = i}

\* C18: when the response has status 429, the error surfaced to the caller
\* (the result's error field or the unit's 'error' progress message) carries
\* the rate-limit guidance of handleApiError.
C18_RateLimitGuidance ==
    \A i \in DOMAIN unit :
        (unit[i].outcome = "http429" /\ req.progress) =>
            \/ \E n \in ErrorEventsOf(i) : events[n].message.text = "rate-limit"
            \/ result.error = "rate-limit"

\* the images with a local file, in the order of the result
RECURSIVE UrlsWithPath(_)
UrlsWithPath(imgs) ==
    IF imgs = <<>> THEN <<>>
    ELSE (IF Head(imgs).localPath.present THEN <<Head(imgs).url>> ELSE <<>>)
         \o UrlsWithPath(Tail(imgs))

\* C19: the sync to the datastore never changes the outcome: it is attempted
\* only when the datastore is configured and the caller did not suppress it,
\* only for images with a localPath, and the result returned has success =
\* true and the collected images whatever the syncs did.
C19_SyncKeepsOutcome ==
    PreflightPassed ~>
        (/\ result.returned
         /\ result.success
         /\ \A i \in DOMAIN unit :
               Cardinality(ImagesOf(result.images, i)) =
                   Cardinality(ImagesOf(generatedImages, i))
         /\ synced = IF req.firebase /\ ~req.skipSync
                     THEN UrlsWithPath(result.images) ELSE <<>>)

\* a line that carries a success or a failure frame
Deciding(line) ==
    /\ line.prefix
    /\ line.form = "object"
    /\ line.type \in {"image_generation.partial_succeeded",
                      "image_generation.partial_failed"}

\* a frame of another type, [DONE], empty data, unparseable JSON, or a line
\* that is no data line
Skippable(line) == ~Deciding(line) /\ line.form # "null"

\* the position of the first deciding line, 0 when there is none
FirstDeciding ==
    IF \E n \in 1..Len(sseLines) : Deciding(sseLines[n])
    THEN CHOOSE n \in 1..Len(sseLines) :
            /\ Deciding(sseLines[n])
            /\ \A m \in 1..(n - 1) : ~Deciding(sseLines[m])
    ELSE 0

ClaimedMessage(err) ==
    IF err.httpStatus # 0
    THEN CASE err.httpStatus = 400 -> "invalid-request"
           [] err.httpStatus = 401 -> "authentication"
           [] err.httpStatus = 403 -> "access-denied"
           [] err.httpStatus = 429 -> "rate-limit"
           [] err.httpStatus = 500 -> "server-error"
           [] OTHER -> "api-error"
    ELSE IF err.connCode = "ECONNABORTED" THEN "timeout"
    ELSE IF err.connCode = "ECONNREFUSED" THEN "network"
    ELSE "unexpected"

\* C20: handleApiError is total and decides in this order: an HTTP status
\* 400, 401, 403, 429, 500 or any other status gives the message for that
\* status; otherwise a connection-timeout code the timeout guidance;
\* otherwise a connection-refused code the network guidance; otherwise the
\* generic unexpected-error message; for every error value raised by the
\* stream consumer, the download stage or the input resolver.
C20_ClassifierOrder ==
    classified.message # "none" => classified.message = ClaimedMessage(classified.err)

\* C12: after any sequence and interleaving of calls the cache holds at
\* most 10 entries; inserting an 11th path into a cache of 10 live entries
\* evicts exactly one entry and leaves the size at 10.
C12_CacheBound == Len(base64Cache) <= 10

\* C13: resolving the same local path twice within 5 minutes performs
\* exactly one file read, whether the two calls are sequential, concurrent
\* (the same path twice in one request) or separated by other paths.
C13_OneReadPerPath ==
    /\ \A m, n \in DOMAIN reading :
          (m < n /\ reading[m].path = reading[n].path) =>
              reading[n].at - reading[m].at >= 300000
    /\ \A n \in DOMAIN reading :
          \A e \in DOMAIN base64Cache :
              (base64Cache[e].key = reading[n].path
                  /\ base64Cache[e].timestamp <= reading[n].at) =>
                      reading[n].at - base64Cache[e].timestamp >= 300000

\* C14: the cache never serves an entry aged CACHE_TTL (5 minutes) or more:
\* a call for a path whose entry is that old reads the file again and
\* returns the fresh payload, even when the old entry is still in the map;
\* an entry younger than CACHE_TTL is served without a file read.
C14_NoStaleServe ==
    /\ lastCall.served =>
          /\ lastCall.at - lastCall.stamp < 300000
          /\ lastCall.data = [path |-> lastCall.path,
                              version |-> lastCall.stamp \div 300000]
    /\ (lastCall # NoCall /\ ~lastCall.served) =>
          lastCall.data = [path |-> lastCall.path, version |-> clock \div 300000]
    /\ \A n \in DOMAIN reading :
          reading[n].found # -1 => reading[n].at - reading[n].found >= 300000

\* the entry of path 1, exactly CACHE_TTL old and still in the map ahead of a
\* younger entry, was not served: the file was read again and the call
\* returned its new content
C14_Witness ==
    /\ Len(base64Cache) >= 2
    /\ base64Cache[1].key = 1
    /\ base64Cache[1].timestamp = 300000
    /\ base64Cache[2].timestamp < 300000
    /\ lastCall = [path |-> 1, served |-> FALSE, data |-> [path |-> 1, version |-> 1],
                   at |-> 300000, stamp |-> 300000, evicted |-> <<>>]

\* where the image of unit i stands in a list, 0 when it is not there
PlaceOf(imgs, i) ==
    IF \E n \in 1..Len(imgs) : imgs[n].url = i
    THEN CHOOSE n \in 1..Len(imgs) : imgs[n].url = i
    ELSE 0

C22_SweepRemovesSettled ==
    pc = "loop" => \A n \in 1..Len(inProgress) : ~Settled(inProgress[n])

\* C23: whenever the cache evicts because of size, the evicted entry is the
\* one with the oldest insertion timestamp among the entries present,
\* independent of expiry; also after a payload was stored again for a key
\* that was still in the map.
C23_EvictsOldestTimestamp ==
    \A n \in 1..Len(lastCall.evicted) :
        \A m \in 1..Len(base64Cache) :
            lastCall.evicted[n].timestamp <= base64Cache[m].timestamp

\* the positions of the 'completed' events
CompletedAt == {n \in 1..Len(events) : events[n].type = "completed"}

\* C24: with a progress callback, an invocation that passed the pre-flight
\* checks emits exactly one 'completed' event, after every unit's image or
\* error event and before it returns; its generated is the number of images
\* of the returned result and its total the number of dispatched units.
C24_OneCompletedEvent ==
    (PreflightPassed /\ req.progress) ~>
        (/\ result.returned
         /\ Cardinality(CompletedAt) = 1
         /\ events[Len(events)].type = "completed"
         /\ events[Len(events)].generated = Len(result.images)
         /\ events[Len(events)].total = Len(dispatchLog))

\* the progress events that carry unit i's index
EventsOf(i) == {n \in 1..Len(events) : events[n].index = i}

\* C25: with a progress callback every unit that has ended emitted exactly
\* one progress event, 'image' when it contributed an image and 'error' when
\* it contributed none; also a unit whose 200 stream ended without a success
\* or failure frame.
C25_OneEventPerUnit ==
    req.progress =>
        \A i \in DOMAIN unit :
            Settled(i) =>
                /\ Cardinality(EventsOf(i)) = 1
                /\ \A n \in EventsOf(i) :
                      events[n].type = IF ImagesOf(generatedImages, i) # {}
                                       THEN "image" ELSE "error"

\* what the stream yields when it arrives as one chunk
YieldedWhole ==
    LET lines == SplitLines(Utf8Decode(chunkStream))
    IN YieldsOf(SubSeq(lines, 1, Len(lines) - 1))

\* C26: the events parseSSEStream yields depend only on the concatenation of
\* the response bytes, not on where the transport cut the chunks.
C26_ChunkingIndependent ==
    (chunkStream # <<>> /\ chunkRest = <<>>) => chunkYielded = YieldedWhole

\* C27: every request with an id is settled by the server's response to that
\* very request or by its own timeout, and the pending map holds an entry
\* for a request exactly while that request is awaiting its response; no
\* entry is replaced or deleted on behalf of another request.
C27_SettledByOwnResponse ==
    \A r \in DOMAIN httpRequests :
        /\ httpRequests[r].st = "resolved" => httpRequests[r].by = r
        /\ httpRequests[r].st = "awaiting" <=>
               [id |-> httpRequests[r].id, owner |-> r] \in pendingRequests

Terminal(status) == status \in {"completed", "failed"}

\* C28: a task's status moves pending -> generating -> (completed | failed),
\* a terminal status is never written over, and when no datastore call fails
\* every started task eventually reaches a terminal status.
C28_TaskLifecycle ==
    /\ [](\A n \in 1..(Len(task.writes) - 1) : ~Terminal(task.writes[n]))
    /\ [](task.status = "completed" => task.writes = <<"pending", "generating", "completed">>)
    /\ (task.pc = "generating" ~> (task.datastoreFailed \/ Terminal(task.status)))

\* C29: two different generated images are never written to the same local
\* path, neither by two units of one invocation nor by units of two
\* concurrent invocations with the same download directory.
C29_DistinctPaths ==
    \A f, g \in files : f.image # g.image => f.localPath # g.localPath

\* C30: when the tool call carries a progress token and a notification
\* sender, complete() hands the final completion notification to the sender,
\* whatever the token and whatever report and nextStage calls came before,
\* also less than 1000 ms after the previous notification.
C30_CompleteAlwaysNotifies ==
    (/\ reporter.completed
     /\ reporter.progressToken.type # "undefined"
     /\ reporter.hasSender)
        => \E n \in 1..Len(sent) : sent[n].message = "completed"

====
